---- MODULE Spec2Model ----
(***************************************************************************)
(* The two AccessKit C examples, bindings/c/examples/sdl/hello_world.c and *)
(* bindings/c/examples/windows/hello_world.c, as one state machine.        *)
(*                                                                         *)
(* Both programs are run side by side.  A window-system event (focus       *)
(* gained / lost, key down) and an assistive-technology action request is  *)
(* delivered to both programs in the same step, so that the two window     *)
(* states can be compared after every event.  Events only one program has  *)
(* (WM_GETOBJECT, WM_DESTROY, the activation of the SDL adapter, SDL_QUIT, *)
(* the SDL window geometry events) are steps of that program alone.        *)
(*                                                                         *)
(* The adapters themselves (accesskit_windows_adapter_*, accesskit_unix_*, *)
(* the subclassing adapters) are not part of the two files; what is        *)
(* modelled of them is the tree they hold: the initial tree followed by    *)
(* every update handed to them.                                            *)
(***************************************************************************)
EXTENDS Integers, Sequences, FiniteSets, TLC

(* ----------------------------------------------------------------------- *)
(* Program constants                                                       *)
(* ----------------------------------------------------------------------- *)
WINDOW_ID == 1
BUTTON_1_ID == 2
BUTTON_2_ID == 3
ANNOUNCEMENT_ID == 4
INITIAL_FOCUS == BUTTON_1_ID

NULL == "NULL"

BUTTON_1_RECT == <<20, 20, 100, 60>>
BUTTON_2_RECT == <<20, 60, 100, 100>>

SET_FOCUS_MSG == "SET_FOCUS_MSG"
DO_DEFAULT_ACTION_MSG == "DO_DEFAULT_ACTION_MSG"

(* The title the SDL example gives its root node; the Windows example      *)
(* builds its root without a name.                                         *)
SDL_WINDOW_TITLE == "Hello world"

(* ----------------------------------------------------------------------- *)
(* Bounds of the model                                                     *)
(* ----------------------------------------------------------------------- *)
(* Longest queue of posted user messages / pushed user events.             *)
MaxQueue == 2
(* Window positions 0..MaxPos on each axis, sizes 1..MaxSize, borders      *)
(* 0..MaxBorder (SDL geometry events).                                     *)
MaxPos == 1
MaxSize == 2
MaxBorder == 1

(* Node ids an action request can name: the two buttons and a node that    *)
(* is not a button.                                                        *)
RequestTargets == {BUTTON_1_ID, BUTTON_2_ID, ANNOUNCEMENT_ID}
(* Actions an action request can carry: the two the examples handle and    *)
(* one they do not.                                                        *)
RequestActions == {"ACCESSKIT_ACTION_FOCUS", "ACCESSKIT_ACTION_DEFAULT",
                   "ACCESSKIT_ACTION_EXPAND"}
(* The platforms the SDL example is compiled for.  The __APPLE__ branches  *)
(* do what the _WIN32 branches do, with the macOS adapter.                 *)
Platforms == {"UNIX", "WIN32"}

(* ----------------------------------------------------------------------- *)
(* Pure helpers shared by both examples                                    *)
(* ----------------------------------------------------------------------- *)
node_id_cmp(id1, id2) == id1 = id2

node_id_dup(src) == src

(* accesskit_opt_node_id: has_value, and value only when it has one.        *)
None == [has_value |-> FALSE]

Some(id) == [has_value |-> TRUE, value |-> id]

NoRect == << >>

build_button(id, name) ==
  [role |-> "ACCESSKIT_ROLE_BUTTON",
   bounds |-> IF node_id_cmp(id, BUTTON_1_ID) THEN BUTTON_1_RECT ELSE BUTTON_2_RECT,
   name |-> name,
   live |-> NULL,
   actions |-> {"ACCESSKIT_ACTION_FOCUS"},
   default_action_verb |-> "ACCESSKIT_DEFAULT_ACTION_VERB_CLICK",
   children |-> << >>]

build_announcement(text) ==
  [role |-> "ACCESSKIT_ROLE_STATIC_TEXT",
   bounds |-> NoRect,
   name |-> text,
   live |-> "ACCESSKIT_LIVE_POLITE",
   actions |-> {},
   default_action_verb |-> NULL,
   children |-> << >>]

window_state_focus(state) ==
  IF state.is_window_focused THEN Some(state.focus) ELSE None

(* A root that lists the announcement whether or not there is one.        *)
window_state_build_root_always_announcing(state, title) ==
  [role |-> "ACCESSKIT_ROLE_WINDOW",
   bounds |-> NoRect,
   name |-> title,
   live |-> NULL,
   actions |-> {},
   default_action_verb |-> NULL,
   children |-> <<BUTTON_1_ID, BUTTON_2_ID, ANNOUNCEMENT_ID>>]

(* window_state_build_root; title is WINDOW_TITLE in the SDL example and   *)
(* NULL (no accesskit_node_builder_set_name call) in the Windows example.  *)
window_state_build_root(state, title) ==
  [role |-> "ACCESSKIT_ROLE_WINDOW",
   bounds |-> NoRect,
   name |-> title,
   live |-> NULL,
   actions |-> {},
   default_action_verb |-> NULL,
   children |-> <<BUTTON_1_ID, BUTTON_2_ID>> \o
                (IF state.announcement # NULL THEN <<ANNOUNCEMENT_ID>> ELSE << >>)]

Entry(id, node) == [id |-> id, node |-> node]

window_state_build_initial_tree(state, title) ==
  [tree |-> Some(WINDOW_ID),
   focus |-> window_state_focus(state),
   nodes |-> <<Entry(WINDOW_ID, window_state_build_root(state, title)),
               Entry(BUTTON_1_ID, build_button(BUTTON_1_ID, "Button 1")),
               Entry(BUTTON_2_ID, build_button(BUTTON_2_ID, "Button 2"))>> \o
             (IF state.announcement # NULL
                THEN <<Entry(ANNOUNCEMENT_ID, build_announcement(state.announcement))>>
                ELSE << >>)]

(* A press update that carries the announcement and not the root.         *)
build_tree_update_for_button_press_without_root(state, title) ==
  [tree |-> None,
   focus |-> window_state_focus(state),
   nodes |-> <<Entry(ANNOUNCEMENT_ID, build_announcement(state.announcement))>>]

(* The update both examples build after a button press (SDL:               *)
(* build_tree_update_for_button_press; Windows: the body of                *)
(* window_state_press_button under state->adapter != NULL).                *)
build_tree_update_for_button_press(state, title) ==
  [tree |-> None,
   focus |-> window_state_focus(state),
   nodes |-> <<Entry(ANNOUNCEMENT_ID, build_announcement(state.announcement)),
               Entry(WINDOW_ID, window_state_build_root(state, title))>>]

build_tree_update_for_focus_update(state) ==
  [tree |-> None,
   focus |-> window_state_focus(state),
   nodes |-> << >>]

(* A press that always announces button 1.                                 *)
ButtonTextAlwaysFirst(id) == "You pressed button 1"

ButtonText(id) ==
  IF node_id_cmp(id, BUTTON_1_ID) THEN "You pressed button 1"
                                  ELSE "You pressed button 2"

(* A Tab that always moves to the second button.                           *)
ToggleFocusStuck(focus) == BUTTON_2_ID

ToggleFocus(focus) ==
  IF node_id_cmp(focus, BUTTON_1_ID) THEN BUTTON_2_ID ELSE BUTTON_1_ID

(* ----------------------------------------------------------------------- *)
(* The tree an adapter holds                                               *)
(* ----------------------------------------------------------------------- *)
NoTree == [root |-> None, focus |-> None, nodes |-> << >>]

UpdateIds(update) == {update.nodes[i].id : i \in 1..Len(update.nodes)}

UpdateNode(update, id) ==
  LET i == CHOOSE j \in 1..Len(update.nodes) :
             /\ update.nodes[j].id = id
             /\ \A k \in (j+1)..Len(update.nodes) : update.nodes[k].id # id
  IN update.nodes[i].node

(* Applying a tree update: the nodes it carries replace or add to the      *)
(* nodes held, the focus is replaced, the root is set when the update      *)
(* carries a tree.                                                         *)
ApplyUpdate(tree, update) ==
  [root |-> IF update.tree.has_value THEN update.tree ELSE tree.root,
   focus |-> update.focus,
   nodes |-> [id \in (DOMAIN tree.nodes) \cup UpdateIds(update) |->
                IF id \in UpdateIds(update) THEN UpdateNode(update, id)
                                            ELSE tree.nodes[id]]]

(* ----------------------------------------------------------------------- *)
(* State                                                                   *)
(* ----------------------------------------------------------------------- *)
VARIABLES
  sdl,            \* SDL: struct window_state (focus, is_window_focused, announcement)
  s_platform,     \* SDL: the platform the example was compiled for
  s_active,       \* SDL: the adapter has asked for the initial tree
  s_tree,         \* SDL: the tree the adapter holds
  s_out,          \* SDL: the updates handed to the adapter by the last step
  s_queue,        \* SDL: user events pushed by do_action, not yet handled
  s_running,      \* SDL: the event loop has not seen SDL_QUIT
  s_window,       \* SDL: position, size and borders of the SDL window
  s_root_bounds,  \* SDL: the last bounds given to set_root_window_bounds
  win,            \* Windows: struct window_state
  w_userdata,     \* Windows: GWLP_USERDATA, "state" or NULL
  w_tree,         \* Windows: the tree the adapter holds
  w_out,          \* Windows: the updates handed to the adapter by the last step
  w_queue,        \* Windows: messages posted by do_action, not yet dispatched
  w_ret,          \* Windows: what the last WndProc call returned
  w_created,      \* Windows: number of accesskit_windows_adapter_new calls
  w_forwarded,    \* Windows: the adapter the last WM_GETOBJECT was handed to
  w_deref,        \* Windows: the last WndProc call dereferenced the window state
  w_msg,          \* Windows: the message of the last WndProc call
  ev,             \* the event the last step handled
  pre_focus,      \* <<sdl.focus, win.focus>> before the last step
  req             \* the request the last step gave to do_action, if it gave one

win_vars == <<win, w_userdata, w_tree, w_out, w_queue, w_ret, w_created,
              w_forwarded, w_deref, w_msg>>

vars == <<sdl, s_platform, s_active, s_tree, s_out, s_queue, s_running,
          s_window, s_root_bounds, win, w_userdata, w_tree, w_out, w_queue,
          w_ret, w_created, w_forwarded, w_deref, w_msg, ev, pre_focus, req>>

(* ----------------------------------------------------------------------- *)
(* The SDL example                                                         *)
(* ----------------------------------------------------------------------- *)
window_state_init ==
  [focus |-> INITIAL_FOCUS, is_window_focused |-> FALSE, announcement |-> NULL]

(* SDL_CreateWindow(..., 800, 600, ...) at an undefined position; the      *)
(* model scales the geometry down to its bounds.                           *)
SdlInitWindow(border) ==
  [x |-> 0, y |-> 0, width |-> MaxSize, height |-> 1,
   top |-> border, left |-> border, bottom |-> border, right |-> border]

(* No call of accesskit_unix_adapter_set_root_window_bounds yet.           *)
NoBounds == [outer |-> << >>, inner |-> << >>]

SdlInit ==
  /\ sdl = window_state_init
  /\ s_platform \in Platforms
  /\ s_active = FALSE
  /\ s_tree = NoTree
  /\ s_out = << >>
  /\ s_queue = << >>
  /\ s_running = TRUE
  /\ s_root_bounds = NoBounds

(* accesskit_sdl_adapter_update_if_active, update being what the factory   *)
(* builds from the window state.  On UNIX the factory is always called and *)
(* its update always handed to accesskit_unix_adapter_update; on the other *)
(* platforms the factory is called only when the adapter is active.  An    *)
(* adapter that holds no tree yet has nothing to apply the update to.      *)
accesskit_sdl_adapter_update_if_active(update) ==
  /\ s_out' = IF s_platform = "UNIX" \/ s_active THEN <<update>> ELSE << >>
  /\ s_tree' = IF s_active THEN ApplyUpdate(s_tree, update) ELSE s_tree

window_state_update_focus(state) ==
  accesskit_sdl_adapter_update_if_active(build_tree_update_for_focus_update(state))

(* A window_state_press_button that announces the focused button instead  *)
(* of the one it is given.                                                 *)
sdl_window_state_press_focused(state, id) ==
  /\ sdl' = [state EXCEPT !.announcement = ButtonText(state.focus)]
  /\ accesskit_sdl_adapter_update_if_active(
        build_tree_update_for_button_press(sdl', SDL_WINDOW_TITLE))

sdl_window_state_press_button(state, id) ==
  /\ sdl' = [state EXCEPT !.announcement = ButtonText(id)]
  /\ accesskit_sdl_adapter_update_if_active(
        build_tree_update_for_button_press(sdl', SDL_WINDOW_TITLE))

(* build_initial_tree: the adapter asks for the initial tree, under the    *)
(* window state's mutex.                                                   *)
SdlBuildInitialTree ==
  /\ s_running
  /\ ~s_active
  /\ s_active' = TRUE
  /\ s_out' = <<window_state_build_initial_tree(sdl, SDL_WINDOW_TITLE)>>
  /\ s_tree' = ApplyUpdate(NoTree, window_state_build_initial_tree(sdl, SDL_WINDOW_TITLE))
  /\ UNCHANGED <<sdl, s_platform, s_queue, s_running, s_window, s_root_bounds>>

(* The SDL_WINDOWEVENT and SDL_KEYDOWN branches of the event loop that     *)
(* touch the window state.                                                 *)
SdlUiEvent(e) ==
  /\ s_running
  /\ CASE e = "FOCUS_GAINED" ->
            /\ sdl' = [sdl EXCEPT !.is_window_focused = TRUE]
            /\ window_state_update_focus(sdl')
       [] e = "FOCUS_LOST" ->
            /\ sdl' = [sdl EXCEPT !.is_window_focused = FALSE]
            /\ window_state_update_focus(sdl')
       [] e = "KEY_TAB" ->
            /\ sdl' = [sdl EXCEPT !.focus = ToggleFocus(sdl.focus)]
            /\ window_state_update_focus(sdl')
       [] e = "KEY_SPACE" ->
            sdl_window_state_press_button(sdl, sdl.focus)
       [] OTHER ->
            /\ sdl' = sdl
            /\ s_out' = << >>
            /\ s_tree' = s_tree
  /\ UNCHANGED <<s_platform, s_active, s_queue, s_running, s_window, s_root_bounds>>

(* do_action: the target is duplicated for every request, the event is     *)
(* pushed for the two actions handled.                                     *)
sdl_do_action(request) ==
  LET event == [code |-> IF request.action = "ACCESSKIT_ACTION_FOCUS"
                           THEN SET_FOCUS_MSG ELSE DO_DEFAULT_ACTION_MSG,
                data1 |-> node_id_dup(request.target)]
  IN /\ s_running
     /\ s_active
     /\ Len(s_queue) < MaxQueue
     /\ s_queue' = IF request.action \in {"ACCESSKIT_ACTION_FOCUS",
                                         "ACCESSKIT_ACTION_DEFAULT"}
                     THEN Append(s_queue, event) ELSE s_queue
     /\ s_out' = << >>
     /\ UNCHANGED <<sdl, s_platform, s_active, s_tree, s_running, s_window,
                    s_root_bounds>>

(* The user-event branch of the event loop, on the oldest pushed event.    *)
SdlUserEvent ==
  /\ s_running
  /\ s_queue # << >>
  /\ s_queue' = Tail(s_queue)
  /\ LET event == Head(s_queue)
         target == event.data1
     IN IF node_id_cmp(target, BUTTON_1_ID) \/ node_id_cmp(target, BUTTON_2_ID)
          THEN IF event.code = SET_FOCUS_MSG
                 THEN /\ sdl' = [sdl EXCEPT !.focus = target]
                      /\ window_state_update_focus(sdl')
                 ELSE IF event.code = DO_DEFAULT_ACTION_MSG
                        THEN sdl_window_state_press_button(sdl, target)
                        ELSE /\ sdl' = sdl
                             /\ s_out' = << >>
                             /\ s_tree' = s_tree
          ELSE /\ sdl' = sdl
               /\ s_out' = << >>
               /\ s_tree' = s_tree
  /\ UNCHANGED <<s_platform, s_active, s_running, s_window, s_root_bounds>>

(* SDL_QUIT: the loop is left, the adapter and the state are destroyed.    *)
SdlQuitEvent ==
  /\ s_running
  /\ s_running' = FALSE
  /\ s_out' = << >>
  /\ UNCHANGED <<sdl, s_platform, s_active, s_tree, s_queue, s_window,
                 s_root_bounds>>

(* accesskit_sdl_adapter_update_root_window_bounds: compiled to nothing    *)
(* unless UNIX is defined.                                                 *)
RootWindowBounds(window) ==
  [outer |-> <<window.x - window.left, window.y - window.top,
               window.x + window.width + window.right,
               window.y + window.height + window.bottom>>,
   inner |-> <<window.x, window.y, window.x + window.width,
               window.y + window.height>>]

accesskit_sdl_adapter_update_root_window_bounds(window) ==
  s_root_bounds' = IF s_platform = "UNIX" THEN RootWindowBounds(window)
                                          ELSE s_root_bounds

(* The geometry events of the SDL_WINDOWEVENT switch.  The window system   *)
(* has changed the window before the event is handled; the switch has a    *)
(* case for MOVED and for SHOWN and none for RESIZED.                      *)
SdlMoved(x, y) ==
  /\ s_running
  /\ <<x, y>> # <<s_window.x, s_window.y>>
  /\ s_window' = [s_window EXCEPT !.x = x, !.y = y]
  /\ accesskit_sdl_adapter_update_root_window_bounds(s_window')
  /\ ev' = "SDL_WINDOWEVENT_MOVED"
  /\ pre_focus' = <<sdl.focus, win.focus>>
  /\ req' = << >>
  /\ UNCHANGED <<sdl, s_platform, s_active, s_tree, s_out, s_queue, s_running>>
  /\ UNCHANGED win_vars

SdlShown ==
  /\ s_running
  /\ s_window' = s_window
  /\ accesskit_sdl_adapter_update_root_window_bounds(s_window')
  /\ ev' = "SDL_WINDOWEVENT_SHOWN"
  /\ pre_focus' = <<sdl.focus, win.focus>>
  /\ req' = << >>
  /\ UNCHANGED <<sdl, s_platform, s_active, s_tree, s_out, s_queue, s_running>>
  /\ UNCHANGED win_vars

SdlResized(width, height) ==
  /\ s_running
  /\ <<width, height>> # <<s_window.width, s_window.height>>
  /\ s_window' = [s_window EXCEPT !.width = width, !.height = height]
  /\ s_root_bounds' = s_root_bounds
  /\ ev' = "SDL_WINDOWEVENT_RESIZED"
  /\ pre_focus' = <<sdl.focus, win.focus>>
  /\ req' = << >>
  /\ UNCHANGED <<sdl, s_platform, s_active, s_tree, s_out, s_queue, s_running>>
  /\ UNCHANGED win_vars

(* ----------------------------------------------------------------------- *)
(* The Windows example                                                     *)
(* ----------------------------------------------------------------------- *)
NoForward == [adapter |-> NULL, has_value |-> FALSE]

(* The state WM_NCCREATE builds.                                           *)
WinInit ==
  /\ win = [uia_init_marker |-> "uia_init_marker", adapter |-> NULL,
            focus |-> INITIAL_FOCUS, is_window_focused |-> FALSE,
            announcement |-> NULL]
  /\ w_userdata = "state"
  /\ w_tree = NoTree
  /\ w_out = << >>
  /\ w_queue = << >>
  /\ w_ret = "DefWindowProc"
  /\ w_created = 0
  /\ w_forwarded = NoForward
  /\ w_deref = FALSE
  /\ w_msg = "WM_NCCREATE"

get_window_state == w_userdata

(* accesskit_windows_adapter_update followed by                            *)
(* accesskit_windows_queued_events_raise.                                  *)
accesskit_windows_adapter_update(update) ==
  /\ w_out' = <<update>>
  /\ w_tree' = ApplyUpdate(w_tree, update)

WinNoUpdate ==
  /\ w_out' = << >>
  /\ w_tree' = w_tree

(* A get-or-init that builds a new adapter on every call.                  *)
window_state_get_or_init_always_new(state) ==
  /\ win' = [state EXCEPT !.adapter = "adapter" \o ToString(w_created + 1),
                          !.uia_init_marker = NULL]
  /\ w_created' = w_created + 1
  /\ w_out' = <<window_state_build_initial_tree(state, NULL)>>
  /\ w_tree' = ApplyUpdate(NoTree, window_state_build_initial_tree(state, NULL))

(* window_state_get_or_init_accesskit_adapter; the handle of the n-th      *)
(* adapter created is "adapter<n>".                                        *)
window_state_get_or_init_accesskit_adapter(state) ==
  IF state.adapter # NULL
    THEN /\ win' = state
         /\ w_created' = w_created
         /\ WinNoUpdate
    ELSE /\ win' = [state EXCEPT !.adapter = "adapter" \o ToString(w_created + 1),
                                 !.uia_init_marker = NULL]
         /\ w_created' = w_created + 1
         /\ w_out' = <<window_state_build_initial_tree(state, NULL)>>
         /\ w_tree' = ApplyUpdate(NoTree, window_state_build_initial_tree(state, NULL))

(* A window_state_press_button that stores the text only when there is an  *)
(* adapter to tell.                                                        *)
window_state_press_button_if_adapter(state, id) ==
  IF state.adapter # NULL
    THEN /\ win' = [state EXCEPT !.announcement = ButtonText(id)]
         /\ accesskit_windows_adapter_update(
              build_tree_update_for_button_press(win', NULL))
    ELSE /\ win' = state
         /\ WinNoUpdate

window_state_press_button(state, id) ==
  /\ win' = [state EXCEPT !.announcement = ButtonText(id)]
  /\ IF state.adapter # NULL
       THEN accesskit_windows_adapter_update(
              build_tree_update_for_button_press(win', NULL))
       ELSE WinNoUpdate

(* An update_focus that reads the focus before it stores the flag.         *)
update_focus_read_first(state, is_window_focused) ==
  /\ win' = [state EXCEPT !.is_window_focused = is_window_focused]
  /\ IF state.adapter # NULL
       THEN accesskit_windows_adapter_update(
              build_tree_update_for_focus_update(state))
       ELSE WinNoUpdate

(* update_focus on the window state as the caller left it.                 *)
update_focus(state, is_window_focused) ==
  /\ win' = [state EXCEPT !.is_window_focused = is_window_focused]
  /\ IF state.adapter # NULL
       THEN accesskit_windows_adapter_update(
              build_tree_update_for_focus_update(win'))
       ELSE WinNoUpdate

(* A target check that only turns the window itself away.                  *)
IsNotWindow(id) == ~node_id_cmp(id, WINDOW_ID)

IsButton(id) == node_id_cmp(id, BUTTON_1_ID) \/ node_id_cmp(id, BUTTON_2_ID)

(* A WM_GETOBJECT branch without the NULL check.                           *)
WndProcGetObjectUnchecked ==
  /\ window_state_get_or_init_accesskit_adapter(win)
  /\ w_deref' = TRUE
  /\ \E has_value \in BOOLEAN :
       /\ w_forwarded' = [adapter |-> win'.adapter, has_value |-> has_value]
       /\ w_ret' = IF has_value THEN "result.value" ELSE "DefWindowProc"

(* The WM_GETOBJECT branch of WndProc.                                     *)
WndProcGetObject ==
  IF get_window_state = NULL
    THEN /\ w_ret' = "DefWindowProc"
         /\ w_forwarded' = NoForward
         /\ w_deref' = FALSE
         /\ win' = win
         /\ w_created' = w_created
         /\ WinNoUpdate
    ELSE /\ window_state_get_or_init_accesskit_adapter(win)
         /\ w_deref' = TRUE
         /\ \E has_value \in BOOLEAN :
              /\ w_forwarded' = [adapter |-> win'.adapter, has_value |-> has_value]
              /\ w_ret' = IF has_value THEN "result.value" ELSE "DefWindowProc"

(* WndProc, for every message but WM_NCCREATE (which builds the initial    *)
(* state).  A branch that dereferences get_window_state(hwnd) is given a   *)
(* live window state by its callers below.                                 *)
WndProc(msg, wParam, lParam) ==
  /\ w_msg' = msg
  /\ CASE msg = "WM_PAINT" ->
            /\ w_ret' = "0"
            /\ w_deref' = FALSE
            /\ UNCHANGED <<win, w_userdata, w_created, w_forwarded>>
            /\ WinNoUpdate
       [] msg = "WM_DESTROY" ->
            /\ w_userdata' = NULL
            /\ w_deref' = (w_userdata # NULL)
            /\ w_tree' = IF w_userdata # NULL THEN NoTree ELSE w_tree
            /\ w_out' = << >>
            /\ w_ret' = "0"
            /\ UNCHANGED <<win, w_created, w_forwarded>>
       [] msg = "WM_GETOBJECT" ->
            /\ WndProcGetObject
            /\ UNCHANGED w_userdata
       [] msg \in {"WM_SETFOCUS", "WM_EXITMENULOOP", "WM_EXITSIZEMOVE"} ->
            /\ update_focus(win, TRUE)
            /\ w_ret' = "0"
            /\ w_deref' = TRUE
            /\ UNCHANGED <<w_userdata, w_created, w_forwarded>>
       [] msg \in {"WM_KILLFOCUS", "WM_ENTERMENULOOP", "WM_ENTERSIZEMOVE"} ->
            /\ update_focus(win, FALSE)
            /\ w_ret' = "0"
            /\ w_deref' = TRUE
            /\ UNCHANGED <<w_userdata, w_created, w_forwarded>>
       [] msg = "WM_KEYDOWN" ->
            /\ IF wParam = "VK_TAB"
                 THEN /\ update_focus([win EXCEPT !.focus = ToggleFocus(win.focus)], TRUE)
                      /\ w_ret' = "0"
                      /\ w_deref' = TRUE
                 ELSE IF wParam = "VK_SPACE"
                        THEN /\ window_state_press_button(win, win.focus)
                             /\ w_ret' = "0"
                             /\ w_deref' = TRUE
                        ELSE /\ w_ret' = "DefWindowProc"
                             /\ w_deref' = FALSE
                             /\ win' = win
                             /\ WinNoUpdate
            /\ UNCHANGED <<w_userdata, w_created, w_forwarded>>
       [] msg = SET_FOCUS_MSG ->
            /\ IF IsButton(lParam)
                 THEN /\ update_focus([win EXCEPT !.focus = lParam],
                                      win.is_window_focused)
                      /\ w_deref' = TRUE
                 ELSE /\ win' = win
                      /\ w_deref' = FALSE
                      /\ WinNoUpdate
            /\ w_ret' = "0"
            /\ UNCHANGED <<w_userdata, w_created, w_forwarded>>
       [] msg = DO_DEFAULT_ACTION_MSG ->
            /\ IF IsButton(lParam)
                 THEN /\ window_state_press_button(win, lParam)
                      /\ w_deref' = TRUE
                 ELSE /\ win' = win
                      /\ w_deref' = FALSE
                      /\ WinNoUpdate
            /\ w_ret' = "0"
            /\ UNCHANGED <<w_userdata, w_created, w_forwarded>>
       [] OTHER ->
            /\ w_ret' = "DefWindowProc"
            /\ w_deref' = FALSE
            /\ UNCHANGED <<win, w_userdata, w_created, w_forwarded>>
            /\ WinNoUpdate

(* A do_action whose second branch is not guarded by the action: every     *)
(* request that is not a focus request posts a default-action message.     *)
do_action_unguarded_default(request) ==
  /\ w_userdata # NULL
  /\ win.adapter # NULL
  /\ Len(w_queue) < MaxQueue
  /\ w_queue' =
       IF request.action = "ACCESSKIT_ACTION_FOCUS"
         THEN Append(w_queue, [msg |-> SET_FOCUS_MSG,
                               lParam |-> node_id_dup(request.target)])
         ELSE Append(w_queue, [msg |-> DO_DEFAULT_ACTION_MSG,
                               lParam |-> node_id_dup(request.target)])
  /\ w_out' = << >>
  /\ UNCHANGED <<win, w_userdata, w_tree, w_ret, w_created, w_forwarded,
                 w_deref, w_msg>>

(* do_action: one message posted for each of the two actions handled.      *)
do_action(request) ==
  /\ w_userdata # NULL
  /\ win.adapter # NULL
  /\ Len(w_queue) < MaxQueue
  /\ w_queue' =
       IF request.action = "ACCESSKIT_ACTION_FOCUS"
         THEN Append(w_queue, [msg |-> SET_FOCUS_MSG,
                               lParam |-> node_id_dup(request.target)])
         ELSE IF request.action = "ACCESSKIT_ACTION_DEFAULT"
                THEN Append(w_queue, [msg |-> DO_DEFAULT_ACTION_MSG,
                                      lParam |-> node_id_dup(request.target)])
                ELSE w_queue
  /\ w_out' = << >>
  /\ UNCHANGED <<win, w_userdata, w_tree, w_ret, w_created, w_forwarded,
                 w_deref, w_msg>>

(* The message loop dispatching the oldest posted message.                 *)
WinDispatchPosted ==
  /\ w_userdata # NULL
  /\ w_queue # << >>
  /\ w_queue' = Tail(w_queue)
  /\ WndProc(Head(w_queue).msg, "0", Head(w_queue).lParam)

(* The Windows messages of a window-system event.                          *)
WinMessages(e) ==
  CASE e = "FOCUS_GAINED" ->
         {<<"WM_SETFOCUS", "0">>, <<"WM_EXITMENULOOP", "0">>, <<"WM_EXITSIZEMOVE", "0">>}
    [] e = "FOCUS_LOST" ->
         {<<"WM_KILLFOCUS", "0">>, <<"WM_ENTERMENULOOP", "0">>, <<"WM_ENTERSIZEMOVE", "0">>}
    [] e = "KEY_TAB" -> {<<"WM_KEYDOWN", "VK_TAB">>}
    [] e = "KEY_SPACE" -> {<<"WM_KEYDOWN", "VK_SPACE">>}
    [] OTHER -> {<<"WM_KEYDOWN", "VK_RETURN">>}

UiEvents == {"FOCUS_GAINED", "FOCUS_LOST", "KEY_TAB", "KEY_SPACE", "KEY_OTHER"}

Requests == [action : RequestActions, target : RequestTargets]

(* ----------------------------------------------------------------------- *)
(* The steps of the two programs                                           *)
(* ----------------------------------------------------------------------- *)
Init ==
  /\ SdlInit
  /\ s_window = SdlInitWindow(0)
  /\ WinInit
  /\ ev = "init"
  /\ pre_focus = <<INITIAL_FOCUS, INITIAL_FOCUS>>
  /\ req = << >>

(* A window-system event, handled by both programs.                        *)
UiEvent(e) ==
  /\ SdlUiEvent(e)
  /\ w_userdata # NULL
  /\ \E m \in WinMessages(e) : WndProc(m[1], m[2], "0")
  /\ w_queue' = w_queue
  /\ ev' = e
  /\ pre_focus' = <<sdl.focus, win.focus>>
  /\ req' = << >>

(* An action request of the assistive technology, given to the action      *)
(* handler of both programs.                                               *)
ActionRequest(request) ==
  /\ sdl_do_action(request)
  /\ do_action(request)
  /\ ev' = "do_action"
  /\ pre_focus' = <<sdl.focus, win.focus>>
  /\ req' = <<request>>

(* Both event loops handle their oldest queued request.                    *)
UserMessage ==
  /\ SdlUserEvent
  /\ WinDispatchPosted
  /\ ev' = "user_message"
  /\ pre_focus' = <<sdl.focus, win.focus>>
  /\ req' = << >>

SdlActivate ==
  /\ SdlBuildInitialTree
  /\ w_out' = << >>
  /\ UNCHANGED <<win, w_userdata, w_tree, w_queue, w_ret, w_created,
                 w_forwarded, w_deref, w_msg>>
  /\ ev' = "build_initial_tree"
  /\ pre_focus' = <<sdl.focus, win.focus>>
  /\ req' = << >>

SdlIdle ==
  /\ s_out' = << >>
  /\ UNCHANGED <<sdl, s_platform, s_active, s_tree, s_queue, s_running,
                 s_window, s_root_bounds>>

(* WM_GETOBJECT is sent, not posted: it reaches WndProc at any time, also  *)
(* after WM_DESTROY has cleared the window's state pointer.                *)
WmGetObject ==
  /\ WndProc("WM_GETOBJECT", "0", "0")
  /\ w_queue' = w_queue
  /\ SdlIdle
  /\ ev' = "WM_GETOBJECT"
  /\ pre_focus' = <<sdl.focus, win.focus>>
  /\ req' = << >>

(* The user closes the window: the SDL loop gets SDL_QUIT and leaves, the  *)
(* Windows window gets WM_DESTROY (from DefWindowProc's DestroyWindow on   *)
(* WM_CLOSE).                                                              *)
CloseWindow ==
  /\ SdlQuitEvent
  /\ w_userdata # NULL
  /\ WndProc("WM_DESTROY", "0", "0")
  /\ w_queue' = w_queue
  /\ ev' = "close"
  /\ pre_focus' = <<sdl.focus, win.focus>>
  /\ req' = << >>

Next ==
  \/ \E e \in UiEvents : UiEvent(e)
  \/ \E request \in Requests : ActionRequest(request)
  \/ UserMessage
  \/ SdlActivate
  \/ WmGetObject
  \/ CloseWindow

Spec == Init /\ [][Next]_vars

(* The SDL example under its window geometry events alone.                 *)
InitBounds ==
  /\ SdlInit
  /\ \E top \in 0..MaxBorder, side \in 0..MaxBorder :
       s_window = [SdlInitWindow(side) EXCEPT !.top = top]
  /\ WinInit
  /\ ev = "init"
  /\ pre_focus = <<INITIAL_FOCUS, INITIAL_FOCUS>>
  /\ req = << >>

NextBounds ==
  \/ \E x \in 0..MaxPos, y \in 0..MaxPos : SdlMoved(x, y)
  \/ \E width \in 1..MaxSize, height \in 1..MaxSize : SdlResized(width, height)
  \/ SdlShown

SpecBounds == InitBounds /\ [][NextBounds]_vars

(* ----------------------------------------------------------------------- *)
(* Properties                                                              *)
(* ----------------------------------------------------------------------- *)
OtherButton(id) == IF id = BUTTON_1_ID THEN BUTTON_2_ID ELSE BUTTON_1_ID

(* C1: in both examples a Tab key press moves state.focus to the other     *)
(* button (BUTTON_1_ID becomes BUTTON_2_ID, anything else becomes          *)
(* BUTTON_1_ID), and a Tab press that directly follows a Tab press puts    *)
(* state.focus back to what it was before the first of the two.            *)
C1_TabSwitchesFocus ==
  [][ev' = "KEY_TAB" =>
       /\ sdl'.focus = OtherButton(sdl.focus)
       /\ win'.focus = OtherButton(win.focus)
       /\ ev = "KEY_TAB" => <<sdl'.focus, win'.focus>> = pre_focus]_vars

(* Two Tab presses in a row have been handled and both programs are back   *)
(* on the first button.                                                    *)
C1_Witness ==
  /\ ev = "KEY_TAB"
  /\ pre_focus = <<BUTTON_2_ID, BUTTON_2_ID>>
  /\ sdl.focus = BUTTON_1_ID
  /\ win.focus = BUTTON_1_ID

IsAnnouncement(node, text) ==
  /\ node.role = "ACCESSKIT_ROLE_STATIC_TEXT"
  /\ node.live = "ACCESSKIT_LIVE_POLITE"
  /\ node.name = text

InSeq(x, seq) == \E i \in 1..Len(seq) : seq[i] = x

(* An update of exactly two nodes: the announcement node with the text     *)
(* under ANNOUNCEMENT_ID and a window node under WINDOW_ID whose children  *)
(* include ANNOUNCEMENT_ID.                                                *)
IsPressUpdate(update, text) ==
  /\ Len(update.nodes) = 2
  /\ \E i \in 1..2 :
       /\ update.nodes[i].id = ANNOUNCEMENT_ID
       /\ IsAnnouncement(update.nodes[i].node, text)
  /\ \E i \in 1..2 :
       /\ update.nodes[i].id = WINDOW_ID
       /\ update.nodes[i].node.role = "ACCESSKIT_ROLE_WINDOW"
       /\ InSeq(ANNOUNCEMENT_ID, update.nodes[i].node.children)

PressedText(id) ==
  IF id = BUTTON_1_ID THEN "You pressed button 1" ELSE "You pressed button 2"

(* C2: in both examples a Space key press sets state.announcement to the   *)
(* text of the button that has focus at that moment, and when the adapter  *)
(* is active (SDL) or exists (Windows) exactly one update is handed to it, *)
(* of exactly two nodes: the announcement and the rebuilt root.            *)
C2_SpacePressesFocusedButton ==
  [][ev' = "KEY_SPACE" =>
       /\ sdl'.announcement = PressedText(sdl.focus)
       /\ win'.announcement = PressedText(win.focus)
       /\ s_active =>
            /\ Len(s_out') = 1
            /\ IsPressUpdate(s_out'[1], PressedText(sdl.focus))
       /\ win.adapter # NULL =>
            /\ Len(w_out') = 1
            /\ IsPressUpdate(w_out'[1], PressedText(win.focus))]_vars

(* Space has been handled with the second button focused and both adapters *)
(* receiving the update.                                                   *)
C2_Witness ==
  /\ ev = "KEY_SPACE"
  /\ s_active
  /\ win.adapter # NULL
  /\ sdl.focus = BUTTON_2_ID
  /\ Len(s_out) = 1
  /\ Len(w_out) = 1

ExpectedChildren(state) ==
  IF state.announcement = NULL
    THEN <<BUTTON_1_ID, BUTTON_2_ID>>
    ELSE <<BUTTON_1_ID, BUTTON_2_ID, ANNOUNCEMENT_ID>>

(* An initial tree as C3 describes it: rooted at WINDOW_ID, of 3 nodes     *)
(* without and 4 nodes with an announcement, the root's children being the *)
(* expected ones and each of them having a node in the update.             *)
IsInitialTreeOf(update, state) ==
  /\ update.tree = Some(WINDOW_ID)
  /\ Len(update.nodes) = IF state.announcement = NULL THEN 3 ELSE 4
  /\ Cardinality(UpdateIds(update)) = Len(update.nodes)
  /\ WINDOW_ID \in UpdateIds(update)
  /\ UpdateNode(update, WINDOW_ID).children = ExpectedChildren(state)
  /\ \A i \in 1..Len(UpdateNode(update, WINDOW_ID).children) :
       UpdateNode(update, WINDOW_ID).children[i] \in UpdateIds(update)

(* C3: in every reachable state of both examples the root built by         *)
(* window_state_build_root lists BUTTON_1_ID, BUTTON_2_ID and then         *)
(* ANNOUNCEMENT_ID iff there is an announcement; the initial tree has root *)
(* WINDOW_ID, 3 or 4 nodes, and a node for every child the root lists.     *)
(* The same holds of the initial tree an adapter was actually given.       *)
C3_RootChildrenAndInitialTree ==
  /\ window_state_build_root(sdl, SDL_WINDOW_TITLE).children = ExpectedChildren(sdl)
  /\ window_state_build_root(win, NULL).children = ExpectedChildren(win)
  /\ IsInitialTreeOf(window_state_build_initial_tree(sdl, SDL_WINDOW_TITLE), sdl)
  /\ IsInitialTreeOf(window_state_build_initial_tree(win, NULL), win)
  /\ ev = "build_initial_tree" => Len(s_out) = 1 /\ IsInitialTreeOf(s_out[1], sdl)
  /\ (ev = "WM_GETOBJECT" /\ w_out # << >>) =>
       Len(w_out) = 1 /\ IsInitialTreeOf(w_out[1], win)

(* Both adapters have been given an initial tree, one of them with the     *)
(* announcement in it.                                                     *)
C3_Witness ==
  /\ ev = "WM_GETOBJECT"
  /\ Len(w_out) = 1
  /\ Len(w_out[1].nodes) = 4
  /\ s_active
  /\ win.announcement = "You pressed button 2"

(* C4: in the Windows example a WM_GETOBJECT that arrives after           *)
(* WM_DESTROY has cleared the window's state pointer is answered by        *)
(* DefWindowProc: no adapter is created, nothing is handed to an adapter,  *)
(* and the freed window state is neither read nor written.                 *)
C4_GetObjectAfterDestroy ==
  [][(ev' = "WM_GETOBJECT" /\ w_userdata = NULL) =>
       /\ w_ret' = "DefWindowProc"
       /\ w_created' = w_created
       /\ w_forwarded' = NoForward
       /\ w_out' = << >>
       /\ w_tree' = w_tree
       /\ win' = win
       /\ w_userdata' = NULL
       /\ ~w_deref']_vars

(* WM_GETOBJECT has been handled on a destroyed window that had an         *)
(* adapter.                                                                *)
C4_Witness ==
  /\ ev = "WM_GETOBJECT"
  /\ w_userdata = NULL
  /\ w_ret = "DefWindowProc"
  /\ w_created = 1

(* C5: in the Windows example every WM_GETOBJECT received while the window *)
(* state exists is handed to the window's adapter; the adapter is created  *)
(* by the first of them, from the initial tree of the state at that        *)
(* moment, and uia_init_marker is set to NULL; later ones get the same     *)
(* adapter and create nothing.  The adapter is created at most once,       *)
(* adapter and uia_init_marker are never both non-NULL, and WndProc        *)
(* returns the adapter's result when it has a value and DefWindowProc's    *)
(* otherwise.                                                              *)
C5_SingleAdapter ==
  /\ [](w_created <= 1)
  /\ [](~(win.adapter # NULL /\ win.uia_init_marker # NULL))
  /\ [][(ev' = "WM_GETOBJECT" /\ w_userdata # NULL) =>
          /\ win'.adapter # NULL
          /\ w_forwarded'.adapter = win'.adapter
          /\ w_ret' = IF w_forwarded'.has_value THEN "result.value"
                                                ELSE "DefWindowProc"
          /\ win.adapter # NULL =>
               /\ win' = win
               /\ w_created' = w_created
               /\ w_out' = << >>
          /\ win.adapter = NULL =>
               /\ w_created' = w_created + 1
               /\ win'.uia_init_marker = NULL
               /\ win.uia_init_marker # NULL
               /\ Len(w_out') = 1
               /\ IsInitialTreeOf(w_out'[1], win)]_vars

(* A second WM_GETOBJECT has been handed to the adapter the first one      *)
(* created, the adapter having no value to return.                         *)
C5_Witness ==
  /\ ev = "WM_GETOBJECT"
  /\ w_userdata # NULL
  /\ w_created = 1
  /\ w_out = << >>
  /\ w_forwarded = [adapter |-> win.adapter, has_value |-> FALSE]
  /\ w_ret = "DefWindowProc"

ExpectedFocus(state) ==
  IF state.is_window_focused THEN Some(state.focus) ELSE None

(* C6: after a focus-gained event is_window_focused is true, after a       *)
(* focus-lost event it is false, in both examples; and every update the    *)
(* last step handed to an adapter (initial tree, focus update, press       *)
(* update) carries no focus when is_window_focused is false and            *)
(* state.focus otherwise, both read after the step's state change.         *)
C6_FocusNotifications ==
  /\ ev = "FOCUS_GAINED" => sdl.is_window_focused /\ win.is_window_focused
  /\ ev = "FOCUS_LOST" => ~sdl.is_window_focused /\ ~win.is_window_focused
  /\ w_msg \in {"WM_SETFOCUS", "WM_EXITMENULOOP", "WM_EXITSIZEMOVE"} =>
       win.is_window_focused
  /\ w_msg \in {"WM_KILLFOCUS", "WM_ENTERMENULOOP", "WM_ENTERSIZEMOVE"} =>
       ~win.is_window_focused
  /\ \A i \in 1..Len(s_out) : s_out[i].focus = ExpectedFocus(sdl)
  /\ \A i \in 1..Len(w_out) : w_out[i].focus = ExpectedFocus(win)

(* A focus-lost event has been handled and both adapters were told that    *)
(* nothing has focus.                                                      *)
C6_Witness ==
  /\ ev = "FOCUS_LOST"
  /\ s_active
  /\ s_out = <<[tree |-> None, focus |-> None, nodes |-> << >>]>>
  /\ w_out = s_out

(* C7: key presses change only the focus id and the announcement, in both *)
(* examples and whether or not the window is marked focused: Tab changes   *)
(* state.focus and leaves is_window_focused and announcement alone; Space  *)
(* sets state.announcement and leaves focus and is_window_focused alone;   *)
(* any other key leaves the window state alone and sends no update.        *)
C7_KeysChangeOnlyFocusAndAnnouncement ==
  [][/\ ev' = "KEY_TAB" =>
          /\ sdl'.focus # sdl.focus
          /\ win'.focus # win.focus
          /\ sdl'.is_window_focused = sdl.is_window_focused
          /\ win'.is_window_focused = win.is_window_focused
          /\ sdl'.announcement = sdl.announcement
          /\ win'.announcement = win.announcement
     /\ ev' = "KEY_SPACE" =>
          /\ sdl'.announcement = PressedText(sdl.focus)
          /\ win'.announcement = PressedText(win.focus)
          /\ sdl'.focus = sdl.focus
          /\ win'.focus = win.focus
          /\ sdl'.is_window_focused = sdl.is_window_focused
          /\ win'.is_window_focused = win.is_window_focused
     /\ ev' = "KEY_OTHER" =>
          /\ sdl' = sdl
          /\ win' = win
          /\ s_out' = << >>
          /\ w_out' = << >>]_vars

(* C8: while both programs run, fed the same events from their initial     *)
(* states, they have the same focus, is_window_focused and announcement    *)
(* after every step, and when both hand an update to their adapter in a    *)
(* step the two updates report the same focus.                             *)
C8_SameExample ==
  (s_running /\ w_userdata # NULL) =>
    /\ sdl.focus = win.focus
    /\ sdl.is_window_focused = win.is_window_focused
    /\ sdl.announcement = win.announcement
    /\ (s_out # << >> /\ w_out # << >>) => s_out[1].focus = w_out[1].focus

GeometryEvents ==
  {"SDL_WINDOWEVENT_MOVED", "SDL_WINDOWEVENT_RESIZED", "SDL_WINDOWEVENT_SHOWN"}

Encloses(outer, inner) ==
  /\ outer[1] <= inner[1]
  /\ outer[2] <= inner[2]
  /\ outer[3] >= inner[3]
  /\ outer[4] >= inner[4]

(* C9: in the SDL example (built for UNIX, where the adapter takes root    *)
(* window bounds), after the window was resized, moved or shown the        *)
(* adapter has been given the window's current bounds: inner from position *)
(* to position plus size, outer the same extended by the borders and so    *)
(* enclosing inner.                                                        *)
C9_BoundsFollowGeometry ==
  (s_platform = "UNIX" /\ ev \in GeometryEvents) =>
    /\ s_root_bounds.inner = <<s_window.x, s_window.y,
                               s_window.x + s_window.width,
                               s_window.y + s_window.height>>
    /\ s_root_bounds.outer = <<s_window.x - s_window.left,
                               s_window.y - s_window.top,
                               s_window.x + s_window.width + s_window.right,
                               s_window.y + s_window.height + s_window.bottom>>
    /\ Encloses(s_root_bounds.outer, s_root_bounds.inner)

(* The tree a full rebuild from the window state gives, and what C10 names *)
(* of it: node set, root children, announcement text, focus.               *)
TreeAgrees(tree, state, title) ==
  /\ tree = ApplyUpdate(NoTree, window_state_build_initial_tree(state, title))
  /\ tree.root = Some(WINDOW_ID)
  /\ DOMAIN tree.nodes =
       {WINDOW_ID, BUTTON_1_ID, BUTTON_2_ID} \cup
       (IF state.announcement # NULL THEN {ANNOUNCEMENT_ID} ELSE {})
  /\ tree.nodes[WINDOW_ID].children = ExpectedChildren(state)
  /\ \A i \in 1..Len(tree.nodes[WINDOW_ID].children) :
       tree.nodes[WINDOW_ID].children[i] \in DOMAIN tree.nodes
  /\ state.announcement # NULL =>
       IsAnnouncement(tree.nodes[ANNOUNCEMENT_ID], state.announcement)
  /\ tree.focus = ExpectedFocus(state)

(* C10: in both examples the tree the adapter holds, the initial tree it   *)
(* was given followed by every update handed to it since, is the tree a    *)
(* full rebuild from the current window state gives; the root never lists  *)
(* a child the tree has no node for.                                       *)
C10_IncrementalEqualsRebuild ==
  /\ (s_running /\ s_active) => TreeAgrees(s_tree, sdl, SDL_WINDOW_TITLE)
  /\ (w_userdata # NULL /\ win.adapter # NULL) => TreeAgrees(w_tree, win, NULL)

(* Both adapters have just taken a press update and hold the announcement  *)
(* of the first button while the second has focus: the announcement was    *)
(* made by a default-action request.                                       *)
C10_Witness ==
  /\ ev = "user_message"
  /\ s_running /\ s_active
  /\ w_userdata # NULL /\ win.adapter # NULL
  /\ Len(s_out) = 1 /\ Len(s_out[1].nodes) = 2
  /\ Len(w_out) = 1 /\ Len(w_out[1].nodes) = 2
  /\ sdl.focus = BUTTON_2_ID
  /\ s_tree.nodes[ANNOUNCEMENT_ID].name = "You pressed button 1"
  /\ w_tree.nodes[ANNOUNCEMENT_ID].name = "You pressed button 1"

(* The button a step presses in the SDL example, as a sequence: the focused *)
(* button on Space, the target of the oldest queued request when that is a *)
(* default-action request for a button, none on any other step.            *)
SdlPressed ==
  IF ev' = "KEY_SPACE" THEN <<sdl.focus>>
  ELSE IF /\ ev' = "user_message"
          /\ Head(s_queue).code = DO_DEFAULT_ACTION_MSG
          /\ Head(s_queue).data1 \in {BUTTON_1_ID, BUTTON_2_ID}
       THEN <<Head(s_queue).data1>>
  ELSE << >>

(* The same for the Windows example.                                       *)
WinPressed ==
  IF ev' = "KEY_SPACE" THEN <<win.focus>>
  ELSE IF /\ ev' = "user_message"
          /\ Head(w_queue).msg = DO_DEFAULT_ACTION_MSG
          /\ Head(w_queue).lParam \in {BUTTON_1_ID, BUTTON_2_ID}
       THEN <<Head(w_queue).lParam>>
  ELSE << >>

(* What a step that presses the buttons in pressed (one or none) does to   *)
(* the announcement of a window state.                                     *)
AnnouncementOnlyAdded(state, state_after, pressed) ==
  /\ pressed # << >> => state_after.announcement = PressedText(pressed[1])
  /\ pressed = << >> => state_after.announcement = state.announcement
  /\ state.announcement # NULL => state_after.announcement # NULL
  /\ Len(window_state_build_root(state_after, NULL).children)
       >= Len(window_state_build_root(state, NULL).children)

(* C11: in both examples state.announcement is NULL when the window state  *)
(* is initialised and is always NULL or one of the two button texts; a     *)
(* step that presses a button (Space, or a handled default-action request  *)
(* for a button) sets it to the text of the button pressed and every other *)
(* step leaves it as it is, so it names the most recently pressed button,  *)
(* never returns to NULL, and the root never loses a child.                *)
C11_AnnouncementOnlyAdded ==
  /\ [](ev = "init" => (sdl.announcement = NULL /\ win.announcement = NULL))
  /\ [](/\ sdl.announcement \in {NULL, PressedText(BUTTON_1_ID),
                                 PressedText(BUTTON_2_ID)}
        /\ win.announcement \in {NULL, PressedText(BUTTON_1_ID),
                                 PressedText(BUTTON_2_ID)})
  /\ [][/\ AnnouncementOnlyAdded(sdl, sdl', SdlPressed)
        /\ AnnouncementOnlyAdded(win, win', WinPressed)]_vars

(* A Space press with the first button focused has just set both           *)
(* announcements to that button's text, before either adapter existed, and *)
(* the root lists three children.                                          *)
C11_Witness ==
  /\ ev = "KEY_SPACE"
  /\ pre_focus = <<BUTTON_1_ID, BUTTON_1_ID>>
  /\ sdl.announcement = "You pressed button 1"
  /\ win.announcement = "You pressed button 1"
  /\ ~s_active
  /\ win.adapter = NULL
  /\ Len(window_state_build_root(win, NULL).children) = 3

(* C12: in every reachable state of both examples state.focus is           *)
(* BUTTON_1_ID or BUTTON_2_ID, and BUTTON_1_ID when the state is           *)
(* initialised; a step that handles a queued set-focus or default-action   *)
(* request whose target is neither button leaves the window state (focus,  *)
(* is_window_focused, announcement) and the adapter's tree as they are and *)
(* hands no update to the adapter.                                         *)
C12_FocusIsAButton ==
  /\ [](ev = "init" => (sdl.focus = BUTTON_1_ID /\ win.focus = BUTTON_1_ID))
  /\ [](sdl.focus \in {BUTTON_1_ID, BUTTON_2_ID})
  /\ [](win.focus \in {BUTTON_1_ID, BUTTON_2_ID})
  /\ [][ev' = "user_message" =>
          /\ Head(s_queue).data1 \notin {BUTTON_1_ID, BUTTON_2_ID} =>
               (sdl' = sdl /\ s_out' = << >> /\ s_tree' = s_tree)
          /\ Head(w_queue).lParam \notin {BUTTON_1_ID, BUTTON_2_ID} =>
               (win' = win /\ w_out' = << >> /\ w_tree' = w_tree)]_vars

(* Both loops have just handled a request for the announcement node while  *)
(* both adapters were listening and the second button had focus; nothing   *)
(* was handed to either adapter.                                           *)
C12_Witness ==
  /\ ev = "user_message"
  /\ s_active /\ win.adapter # NULL
  /\ w_msg \in {SET_FOCUS_MSG, DO_DEFAULT_ACTION_MSG}
  /\ ~w_deref
  /\ s_out = << >> /\ w_out = << >>
  /\ sdl.focus = BUTTON_2_ID /\ win.focus = BUTTON_2_ID
  /\ sdl.is_window_focused /\ win.is_window_focused

(* The messages do_action enqueues for a request, in the SDL and in the    *)
(* Windows example: one for a focus or a default-action request, carrying  *)
(* the target, none for any other action.                                  *)
SdlEnqueued(request) ==
  IF request.action = "ACCESSKIT_ACTION_FOCUS"
    THEN <<[code |-> SET_FOCUS_MSG, data1 |-> request.target]>>
  ELSE IF request.action = "ACCESSKIT_ACTION_DEFAULT"
    THEN <<[code |-> DO_DEFAULT_ACTION_MSG, data1 |-> request.target]>>
  ELSE << >>

WinEnqueued(request) ==
  IF request.action = "ACCESSKIT_ACTION_FOCUS"
    THEN <<[msg |-> SET_FOCUS_MSG, lParam |-> request.target]>>
  ELSE IF request.action = "ACCESSKIT_ACTION_DEFAULT"
    THEN <<[msg |-> DO_DEFAULT_ACTION_MSG, lParam |-> request.target]>>
  ELSE << >>

(* C13: in both examples a step of the action handler leaves the window    *)
(* state and the adapter's tree as they are, hands the adapter no update,  *)
(* and puts at the back of the queue exactly the messages its request      *)
(* determines (one set-focus message with the target for a focus request,  *)
(* one default-action message with the target for a default-action         *)
(* request, none for another action); the queue changes otherwise only     *)
(* when the loop takes the message at its front, which is the message that *)
(* step handles, so requests are applied in the order they were enqueued.  *)
C13_RequestsQueuedInOrder ==
  [][/\ ev' = "do_action" =>
          /\ Len(req') = 1
          /\ sdl' = sdl /\ s_tree' = s_tree /\ s_out' = << >>
          /\ win' = win /\ w_tree' = w_tree /\ w_out' = << >>
          /\ s_queue' = s_queue \o SdlEnqueued(req'[1])
          /\ w_queue' = w_queue \o WinEnqueued(req'[1])
     /\ ev' = "user_message" =>
          /\ s_queue # << >> /\ s_queue' = Tail(s_queue)
          /\ w_queue # << >> /\ w_queue' = Tail(w_queue)
          /\ w_msg' = Head(w_queue).msg
          /\ Head(s_queue).data1 \in {BUTTON_1_ID, BUTTON_2_ID} =>
               IF Head(s_queue).code = SET_FOCUS_MSG
                 THEN sdl'.focus = Head(s_queue).data1
                 ELSE sdl'.announcement = PressedText(Head(s_queue).data1)
          /\ Head(w_queue).lParam \in {BUTTON_1_ID, BUTTON_2_ID} =>
               IF Head(w_queue).msg = SET_FOCUS_MSG
                 THEN win'.focus = Head(w_queue).lParam
                 ELSE win'.announcement = PressedText(Head(w_queue).lParam)
     /\ ev' \notin {"do_action", "user_message"} =>
          (s_queue' = s_queue /\ w_queue' = w_queue)]_vars

(* The action handler has just been given a focus request for the second   *)
(* button while a default-action request for the first was still waiting:  *)
(* both queues hold the two messages in that order and the window states   *)
(* still have the first button focused and no announcement.                *)
C13_Witness ==
  /\ ev = "do_action"
  /\ req = <<[action |-> "ACCESSKIT_ACTION_FOCUS", target |-> BUTTON_2_ID]>>
  /\ s_queue = <<[code |-> DO_DEFAULT_ACTION_MSG, data1 |-> BUTTON_1_ID],
                 [code |-> SET_FOCUS_MSG, data1 |-> BUTTON_2_ID]>>
  /\ w_queue = <<[msg |-> DO_DEFAULT_ACTION_MSG, lParam |-> BUTTON_1_ID],
                 [msg |-> SET_FOCUS_MSG, lParam |-> BUTTON_2_ID]>>
  /\ sdl.focus = BUTTON_1_ID /\ win.focus = BUTTON_1_ID
  /\ sdl.announcement = NULL /\ win.announcement = NULL

(* What handling a set-focus request for a button does to a window state   *)
(* and hands to its adapter (when listening).                              *)
OnlyFocusSet(state, state_after, target, listening, out) ==
  /\ state_after = [state EXCEPT !.focus = target]
  /\ listening =>
       /\ Len(out) = 1
       /\ out[1].nodes = << >>
       /\ out[1].focus = IF state.is_window_focused THEN Some(target) ELSE None
  /\ ~listening => out = << >>

(* What handling a default-action request for a button does.               *)
OnlyAnnouncementSet(state, state_after, target, listening, out) ==
  /\ state_after = [state EXCEPT !.announcement = PressedText(target)]
  /\ listening =>
       /\ Len(out) = 1
       /\ IsPressUpdate(out[1], PressedText(target))
       /\ out[1].focus = ExpectedFocus(state)
  /\ ~listening => out = << >>

(* C14: in both examples a step that handles a set-focus request for a     *)
(* button sets state.focus to that button and changes no other field of    *)
(* the window state, and the update it hands over carries no focus when    *)
(* the window is not focused; a step that handles a default-action request *)
(* for a button sets state.announcement to the text of that button,        *)
(* whichever button has focus, and changes no other field.                 *)
C14_RequestChangesOnlyWhatItNames ==
  [][ev' = "user_message" =>
       /\ Head(s_queue).data1 \in {BUTTON_1_ID, BUTTON_2_ID} =>
            IF Head(s_queue).code = SET_FOCUS_MSG
              THEN OnlyFocusSet(sdl, sdl', Head(s_queue).data1,
                                s_active, s_out')
              ELSE OnlyAnnouncementSet(sdl, sdl', Head(s_queue).data1,
                                       s_active, s_out')
       /\ Head(w_queue).lParam \in {BUTTON_1_ID, BUTTON_2_ID} =>
            IF Head(w_queue).msg = SET_FOCUS_MSG
              THEN OnlyFocusSet(win, win', Head(w_queue).lParam,
                                win.adapter # NULL, w_out')
              ELSE OnlyAnnouncementSet(win, win', Head(w_queue).lParam,
                                       win.adapter # NULL, w_out')]_vars

(* Both loops have just handled a default-action request for the second    *)
(* button while the first had focus and the windows were not focused: the  *)
(* announcement names the second button, focus is still the first, and the *)
(* update handed to each adapter carries no focus.                         *)
C14_Witness ==
  /\ ev = "user_message"
  /\ w_msg = DO_DEFAULT_ACTION_MSG
  /\ sdl.announcement = "You pressed button 2"
  /\ win.announcement = "You pressed button 2"
  /\ sdl.focus = BUTTON_1_ID /\ win.focus = BUTTON_1_ID
  /\ ~sdl.is_window_focused /\ ~win.is_window_focused
  /\ Len(s_out) = 1 /\ s_out[1].focus = None
  /\ Len(w_out) = 1 /\ w_out[1].focus = None

====
